---- MODULE Spec2Model ----
(***************************************************************************)
(* Request-resilience and caching layer of the Discord bot:                *)
(*   EnhancedCache, RateLimiter, ConnectionPool  (src/utils/performance.js)*)
(*   ErrorRecoverySystem circuit breakers        (utils/errorRecovery.js)  *)
(*   GitHubAIService.generateResponse            (services/githubAI.js)    *)
(*                                                                         *)
(* JavaScript runs the handlers on one thread: a step of the model is one  *)
(* synchronous turn (the code between two awaits).  Every Date.now() read  *)
(* of one turn yields the same value, `now`.                               *)
(***************************************************************************)
EXTENDS Integers, Sequences, FiniteSets, TLC

VARIABLES
    now,             \* Date.now(), in ms
    responseCache,   \* the EnhancedCache instance: cache, accessTimes, maxSize, ttl
    ret,             \* what the last get/has/cleanup did (cleared by the next step)
    written,         \* per key: the arguments and time of the last set() not
                     \* followed by a delete/clear/eviction of the key
    rateLimiter,     \* the RateLimiter instance: limits
    connectionPool,  \* the ConnectionPool instance: maxConnections,
                     \* activeConnections, queue
    circuitBreakers, \* errorRecovery.circuitBreakers
    call,            \* the invocations of the operation under study, in the order
                     \* they start
    admissions,      \* the times at which generateResponse passed the rate limit
    history          \* the steps taken on a circuit breaker, in order, each with
                     \* the breaker before and after it and what it logged

cacheVars == <<responseCache, ret, written>>
serviceVars == <<rateLimiter, connectionPool, circuitBreakers, call, admissions, history>>
vars == <<now, responseCache, ret, written, rateLimiter, connectionPool,
          circuitBreakers, call, admissions, history>>

(***************************************************************************)
(* JavaScript values                                                       *)
(***************************************************************************)
Null == [type |-> "null"]
Num(n) == [type |-> "number", n |-> n]
Str(core, len) == [type |-> "string", core |-> core, len |-> len]

\* ToBoolean(x) = false, for the values the model uses
Falsy(x) ==
    \/ x = Null
    \/ (x.type = "number" /\ x.n = 0)
    \/ (x.type = "string" /\ x.len = 0)

\* the clock
Tick(t) ==
    /\ t > now
    /\ now' = t

(***************************************************************************)
(* A JavaScript Map keeps its keys in insertion order: a sequence of       *)
(* entries [k, v].  set() of a present key keeps its place.                *)
(***************************************************************************)
MapKeys(m) == {m[i].k : i \in DOMAIN m}
MapHas(m, k) == k \in MapKeys(m)
MapGet(m, k) == (CHOOSE i \in DOMAIN m : m[i].k = k)
MapVal(m, k) == m[MapGet(m, k)].v
MapSet(m, k, v) ==
    IF MapHas(m, k)
    THEN [m EXCEPT ![MapGet(m, k)] = [k |-> k, v |-> v]]
    ELSE Append(m, [k |-> k, v |-> v])
MapDelete(m, k) == SelectSeq(m, LAMBDA e : e.k # k)

(***************************************************************************)
(* EnhancedCache                                                           *)
(***************************************************************************)
EnhancedCache(maxSize, ttl) ==
    [cache |-> << >>, accessTimes |-> << >>, maxSize |-> maxSize, ttl |-> ttl]

\* delete() forgetting the access time
EnhancedCache_delete_entry(self, key) ==
    [self EXCEPT !.cache = MapDelete(@, key)]

\* delete(key): the cache afterwards
EnhancedCache_delete(self, key) ==
    [self EXCEPT !.cache = MapDelete(@, key),
                 !.accessTimes = MapDelete(@, key)]

EnhancedCache_clear(self) ==
    [self EXCEPT !.cache = << >>, !.accessTimes = << >>]

\* the scan of evictLRU over accessTimes[1..i]: [key, time] of the oldest so far
RECURSIVE OldestScan(_, _, _)
OldestScan(at, i, t) ==
    IF i = 0 THEN [key |-> Null, time |-> t]
    ELSE LET prev == OldestScan(at, i - 1, t)
         IN  IF at[i].v < prev.time
             THEN [key |-> at[i].k, time |-> at[i].v]
             ELSE prev

EnhancedCache_evictLRU(self, t) ==
    LET oldest == OldestScan(self.accessTimes, Len(self.accessTimes), t)
    IN  IF ~Falsy(oldest.key)
        THEN EnhancedCache_delete(self, oldest.key)
        ELSE self

EnhancedCache_set(self, key, value, customTtl, t) ==
    LET expiryTime == t + (IF Falsy(customTtl) THEN self.ttl ELSE customTtl.n)
        s1 == IF Len(self.cache) >= self.maxSize /\ ~MapHas(self.cache, key)
              THEN EnhancedCache_evictLRU(self, t)
              ELSE self
    IN  [s1 EXCEPT
            !.cache = MapSet(@, key, [value |-> value, expiry |-> expiryTime, hits |-> 0]),
            !.accessTimes = MapSet(@, key, t)]

\* get() with the expiry test written t >= item.expiry
EnhancedCache_get_ge(self, key, t) ==
    IF ~MapHas(self.cache, key)
    THEN [self |-> self, result |-> Null]
    ELSE LET item == MapVal(self.cache, key)
         IN  IF t >= item.expiry
             THEN [self |-> EnhancedCache_delete(self, key), result |-> Null]
             ELSE [self |-> [self EXCEPT
                        !.cache = MapSet(@, key, [item EXCEPT !.hits = @ + 1]),
                        !.accessTimes = MapSet(@, key, t)],
                   result |-> item.value]

\* get() without the expiry test
EnhancedCache_get_stale(self, key, t) ==
    IF ~MapHas(self.cache, key)
    THEN [self |-> self, result |-> Null]
    ELSE LET item == MapVal(self.cache, key)
         IN  [self |-> [self EXCEPT
                    !.cache = MapSet(@, key, [item EXCEPT !.hits = @ + 1]),
                    !.accessTimes = MapSet(@, key, t)],
              result |-> item.value]

\* get(key): [self |-> the cache afterwards, result |-> the value returned]
EnhancedCache_get(self, key, t) ==
    IF ~MapHas(self.cache, key)
    THEN [self |-> self, result |-> Null]
    ELSE LET item == MapVal(self.cache, key)
         IN  IF t > item.expiry
             THEN [self |-> EnhancedCache_delete(self, key), result |-> Null]
             ELSE [self |-> [self EXCEPT
                        !.cache = MapSet(@, key, [item EXCEPT !.hits = @ + 1]),
                        !.accessTimes = MapSet(@, key, t)],
                   result |-> item.value]

EnhancedCache_has(self, key, t) ==
    IF ~MapHas(self.cache, key)
    THEN [self |-> self, result |-> FALSE]
    ELSE IF t > MapVal(self.cache, key).expiry
         THEN [self |-> EnhancedCache_delete(self, key), result |-> FALSE]
         ELSE [self |-> self, result |-> TRUE]

\* cleanup() with the expiry test written t >= item.expiry
EnhancedCache_cleanup_ge(self, t) ==
    LET expired(e) == t >= e.v.expiry
        gone == {e.k : e \in {self.cache[i] : i \in {j \in DOMAIN self.cache : expired(self.cache[j])}}}
    IN  [self EXCEPT !.cache = SelectSeq(@, LAMBDA e : e.k \notin gone),
                     !.accessTimes = SelectSeq(@, LAMBDA e : e.k \notin gone)]

EnhancedCache_cleanup(self, t) ==
    LET expired(e) == t > e.v.expiry
        gone == {e.k : e \in {self.cache[i] : i \in {j \in DOMAIN self.cache : expired(self.cache[j])}}}
    IN  [self EXCEPT !.cache = SelectSeq(@, LAMBDA e : e.k \notin gone),
                     !.accessTimes = SelectSeq(@, LAMBDA e : e.k \notin gone)]

(***************************************************************************)
(* RateLimiter                                                             *)
(***************************************************************************)
RateLimiter == [limits |-> << >>]

\* checkLimit() denying only above the limit
RateLimiter_checkLimit_gt(self, key, limit, window, t) ==
    LET windowStart == t - window
        requests == IF MapHas(self.limits, key) THEN MapVal(self.limits, key) ELSE << >>
        validRequests == SelectSeq(requests, LAMBDA time : time > windowStart)
    IN  IF Len(validRequests) > limit
        THEN [self |-> [self EXCEPT !.limits = MapSet(@, key, validRequests)],
              result |-> FALSE]
        ELSE [self |-> [self EXCEPT !.limits = MapSet(@, key, Append(validRequests, t))],
              result |-> TRUE]

\* checkLimit() recording the denied attempt too
RateLimiter_checkLimit_record(self, key, limit, window, t) ==
    LET windowStart == t - window
        requests == IF MapHas(self.limits, key) THEN MapVal(self.limits, key) ELSE << >>
        validRequests == SelectSeq(requests, LAMBDA time : time > windowStart)
    IN  [self |-> [self EXCEPT !.limits = MapSet(@, key, Append(validRequests, t))],
         result |-> Len(validRequests) < limit]

\* checkLimit() keeping the timestamp that lies exactly one window back
RateLimiter_checkLimit_late(self, key, limit, window, t) ==
    LET windowStart == t - window
        requests == IF MapHas(self.limits, key) THEN MapVal(self.limits, key) ELSE << >>
        validRequests == SelectSeq(requests, LAMBDA time : time >= windowStart)
    IN  IF Len(validRequests) >= limit
        THEN [self |-> [self EXCEPT !.limits = MapSet(@, key, validRequests)],
              result |-> FALSE]
        ELSE [self |-> [self EXCEPT !.limits = MapSet(@, key, Append(validRequests, t))],
              result |-> TRUE]

\* checkLimit() without the pruning
RateLimiter_checkLimit_noprune(self, key, limit, window, t) ==
    LET requests == IF MapHas(self.limits, key) THEN MapVal(self.limits, key) ELSE << >>
    IN  IF Len(requests) >= limit
        THEN [self |-> [self EXCEPT !.limits = MapSet(@, key, requests)],
              result |-> FALSE]
        ELSE [self |-> [self EXCEPT !.limits = MapSet(@, key, Append(requests, t))],
              result |-> TRUE]

\* checkLimit() dropping the histories of the other keys
RateLimiter_checkLimit_only(self, key, limit, window, t) ==
    LET windowStart == t - window
        requests == IF MapHas(self.limits, key) THEN MapVal(self.limits, key) ELSE << >>
        validRequests == SelectSeq(requests, LAMBDA time : time > windowStart)
    IN  IF Len(validRequests) >= limit
        THEN [self |-> [self EXCEPT !.limits = MapSet(<< >>, key, validRequests)],
              result |-> FALSE]
        ELSE [self |-> [self EXCEPT !.limits = MapSet(<< >>, key, Append(validRequests, t))],
              result |-> TRUE]

\* checkLimit(key, limit, window): [self |-> the limiter afterwards, result |-> allowed]
RateLimiter_checkLimit(self, key, limit, window, t) ==
    LET windowStart == t - window
        requests == IF MapHas(self.limits, key) THEN MapVal(self.limits, key) ELSE << >>
        validRequests == SelectSeq(requests, LAMBDA time : time > windowStart)
    IN  IF Len(validRequests) >= limit
        THEN [self |-> [self EXCEPT !.limits = MapSet(@, key, validRequests)],
              result |-> FALSE]
        ELSE [self |-> [self EXCEPT !.limits = MapSet(@, key, Append(validRequests, t))],
              result |-> TRUE]

MAX_AGE == 3600000

\* cleanup(): drops the timestamps of age >= maxAge, and the keys left empty
RateLimiter_cleanup(self, t) ==
    LET valid(requests) == SelectSeq(requests, LAMBDA time : t - time < MAX_AGE)
        swept == [i \in DOMAIN self.limits |->
                    [k |-> self.limits[i].k, v |-> valid(self.limits[i].v)]]
    IN  [self EXCEPT !.limits = SelectSeq(swept, LAMBDA e : Len(e.v) # 0)]

(***************************************************************************)
(* ConnectionPool.  The queue holds the resolve functions of the pending   *)
(* acquire() promises, named by the invocation that awaits them.           *)
(***************************************************************************)
ConnectionPool(maxConnections) ==
    [maxConnections |-> maxConnections, activeConnections |-> 0, queue |-> << >>]

\* acquire() with the capacity test left out
ConnectionPool_acquire_unbounded(self, who) ==
    [self |-> [self EXCEPT !.activeConnections = @ + 1], resolved |-> TRUE]

\* acquire(): [self |-> the pool afterwards, resolved |-> the promise is resolved]
ConnectionPool_acquire(self, who) ==
    IF self.activeConnections < self.maxConnections
    THEN [self |-> [self EXCEPT !.activeConnections = @ + 1], resolved |-> TRUE]
    ELSE [self |-> [self EXCEPT !.queue = Append(@, who)], resolved |-> FALSE]

\* release() resolving the promise queued last
ConnectionPool_release_lifo(self) ==
    LET freed == [self EXCEPT !.activeConnections = @ - 1]
    IN  IF Len(freed.queue) > 0
        THEN [self |-> [freed EXCEPT !.queue = SubSeq(@, 1, Len(@) - 1),
                                     !.activeConnections = @ + 1],
              woken |-> {freed.queue[Len(freed.queue)]}]
        ELSE [self |-> freed, woken |-> {}]

\* release() leaving the queue alone
ConnectionPool_release_nowake(self) ==
    [self |-> [self EXCEPT !.activeConnections = @ - 1], woken |-> {}]

\* release() with the slot of the caller it wakes counted twice
ConnectionPool_release_twice(self) ==
    LET freed == [self EXCEPT !.activeConnections = @ - 1]
    IN  IF Len(freed.queue) > 0
        THEN [self |-> [freed EXCEPT !.queue = Tail(@), !.activeConnections = @ + 2],
              woken |-> {Head(freed.queue)}]
        ELSE [self |-> freed, woken |-> {}]

\* release(): [self |-> the pool afterwards, woken |-> whose acquire() it resolved]
ConnectionPool_release(self) ==
    LET freed == [self EXCEPT !.activeConnections = @ - 1]
    IN  IF Len(freed.queue) > 0
        THEN [self |-> [freed EXCEPT !.queue = Tail(@), !.activeConnections = @ + 1],
              woken |-> {Head(freed.queue)}]
        ELSE [self |-> freed, woken |-> {}]

(***************************************************************************)
(* ErrorRecoverySystem: the breakers created when the module is loaded     *)
(***************************************************************************)
createCircuitBreaker(breakers, name, failureThreshold, recoveryTimeout) ==
    MapSet(breakers, name,
        [state |-> "CLOSED", failures |-> 0, lastFailure |-> Null,
         failureThreshold |-> failureThreshold, recoveryTimeout |-> recoveryTimeout,
         monitoringWindow |-> 300000,
         stats |-> [totalRequests |-> 0, successfulRequests |-> 0, failedRequests |-> 0]])

errorRecovery ==
    createCircuitBreaker(
        createCircuitBreaker(<< >>, "github_ai", 5, 60000),
        "discord_api", 3, 30000)

\* ToNumber(x): Date.now() - null is Date.now() - 0
ToNumber(x) == IF x = Null THEN 0 ELSE x.n

\* executeWithCircuitBreaker leaving OPEN one millisecond early
executeWithCircuitBreaker_enter_early(breaker, t) ==
    LET counted == [breaker EXCEPT !.stats.totalRequests = @ + 1]
    IN  IF counted.state = "OPEN"
        THEN LET timeSinceLastFailure == t - ToNumber(counted.lastFailure)
             IN  IF timeSinceLastFailure + 1 < counted.recoveryTimeout
                 THEN [breaker |-> counted, shortCircuit |-> TRUE]
                 ELSE [breaker |-> [counted EXCEPT !.state = "HALF_OPEN"],
                       shortCircuit |-> FALSE]
        ELSE [breaker |-> counted, shortCircuit |-> FALSE]

\* executeWithCircuitBreaker up to the call of operation(), on the breaker found:
\* [breaker |-> the breaker afterwards, shortCircuit |-> it returns without
\* calling operation()]
executeWithCircuitBreaker_enter(breaker, t) ==
    LET counted == [breaker EXCEPT !.stats.totalRequests = @ + 1]
    IN  IF counted.state = "OPEN"
        THEN LET timeSinceLastFailure == t - ToNumber(counted.lastFailure)
             IN  IF timeSinceLastFailure < counted.recoveryTimeout
                 THEN [breaker |-> counted, shortCircuit |-> TRUE]
                 ELSE [breaker |-> [counted EXCEPT !.state = "HALF_OPEN"],
                       shortCircuit |-> FALSE]
        ELSE [breaker |-> counted, shortCircuit |-> FALSE]

\* the try block closing the breaker without resetting the failure count
executeWithCircuitBreaker_try_stay(breaker) ==
    LET recovered == IF breaker.state = "HALF_OPEN"
                     THEN [breaker EXCEPT !.state = "CLOSED"]
                     ELSE breaker
    IN  [recovered EXCEPT !.stats.successfulRequests = @ + 1]

\* the try block not counting the success
executeWithCircuitBreaker_try_uncounted(breaker) ==
    IF breaker.state = "HALF_OPEN"
    THEN [breaker EXCEPT !.state = "CLOSED", !.failures = 0]
    ELSE breaker

\* the try block after operation() has resolved
executeWithCircuitBreaker_try(breaker) ==
    LET recovered == IF breaker.state = "HALF_OPEN"
                     THEN [breaker EXCEPT !.state = "CLOSED", !.failures = 0]
                     ELSE breaker
    IN  [recovered EXCEPT !.stats.successfulRequests = @ + 1]

\* the event of logSecurityEvent('CIRCUIT_BREAKER_OPEN', null, {...})
CIRCUIT_BREAKER_OPEN(breakerName, breaker) ==
    [event |-> "CIRCUIT_BREAKER_OPEN", breaker |-> breakerName,
     failures |-> breaker.failures, threshold |-> breaker.failureThreshold]

\* the catch block opening the breaker only above the threshold
executeWithCircuitBreaker_catch_gt(breakerName, breaker, t) ==
    LET failed == [breaker EXCEPT !.failures = @ + 1, !.lastFailure = Num(t),
                                  !.stats.failedRequests = @ + 1]
    IN  IF failed.failures > failed.failureThreshold
        THEN [breaker |-> [failed EXCEPT !.state = "OPEN"],
              logged |-> <<[event |-> "CIRCUIT_BREAKER_OPEN", breaker |-> breakerName,
                            failures |-> failed.failures,
                            threshold |-> failed.failureThreshold]>>]
        ELSE [breaker |-> failed, logged |-> << >>]

\* the catch block leaving lastFailure as it was
executeWithCircuitBreaker_catch_stale(breakerName, breaker, t) ==
    LET failed == [breaker EXCEPT !.failures = @ + 1, !.stats.failedRequests = @ + 1]
    IN  IF failed.failures >= failed.failureThreshold
        THEN [breaker |-> [failed EXCEPT !.state = "OPEN"],
              logged |-> <<[event |-> "CIRCUIT_BREAKER_OPEN", breaker |-> breakerName,
                            failures |-> failed.failures,
                            threshold |-> failed.failureThreshold]>>]
        ELSE [breaker |-> failed, logged |-> << >>]

\* the catch block after operation() has rejected:
\* [breaker |-> the breaker afterwards, logged |-> the security events logged]
executeWithCircuitBreaker_catch(breakerName, breaker, t) ==
    LET failed == [breaker EXCEPT !.failures = @ + 1, !.lastFailure = Num(t),
                                  !.stats.failedRequests = @ + 1]
    IN  IF failed.failures >= failed.failureThreshold
        THEN [breaker |-> [failed EXCEPT !.state = "OPEN"],
              logged |-> <<CIRCUIT_BREAKER_OPEN(breakerName, failed)>>]
        ELSE [breaker |-> failed, logged |-> << >>]

\* Math.pow(x, y) for an integer y >= 0, Math.min(a, b)
RECURSIVE Math_pow(_, _)
Math_pow(x, y) == IF y = 0 THEN 1 ELSE x * Math_pow(x, y - 1)

Math_min(a, b) == IF a < b THEN a ELSE b

\* retryCondition(error, attempt), for the conditions of the model:
\* "default" is () => true
retryCondition(condition, error, attempt) ==
    CASE condition = "default" -> TRUE
      [] condition = "retryable" -> error.retryable
      [] condition = "firstTwo" -> attempt <= 2

\* the catch block stopping on retryCondition alone
retryWithBackoff_catch_sleepy(options, attempt, error) ==
    IF ~retryCondition(options.retryCondition, error, attempt)
    THEN [break |-> TRUE, lastError |-> error]
    ELSE [break |-> FALSE, lastError |-> error,
          delay |-> Math_min(options.baseDelay * Math_pow(options.backoffFactor, attempt - 1),
                             options.maxDelay)]

\* the catch block stopping only when both conditions hold
retryWithBackoff_catch_both(options, attempt, error) ==
    IF attempt = options.maxAttempts /\ ~retryCondition(options.retryCondition, error, attempt)
    THEN [break |-> TRUE, lastError |-> error]
    ELSE [break |-> FALSE, lastError |-> error,
          delay |-> Math_min(options.baseDelay * Math_pow(options.backoffFactor, attempt - 1),
                             options.maxDelay)]

\* the catch block sleeping without the cap of maxDelay
retryWithBackoff_catch_uncapped(options, attempt, error) ==
    IF attempt = options.maxAttempts \/ ~retryCondition(options.retryCondition, error, attempt)
    THEN [break |-> TRUE, lastError |-> error]
    ELSE [break |-> FALSE, lastError |-> error,
          delay |-> options.baseDelay * Math_pow(options.backoffFactor, attempt - 1)]

\* the catch block of retryWithBackoff, attempt `attempt` having thrown `error`:
\* break |-> the loop is left, else delay |-> the time slept before the next
\* attempt
retryWithBackoff_catch(options, attempt, error) ==
    IF attempt = options.maxAttempts \/ ~retryCondition(options.retryCondition, error, attempt)
    THEN [break |-> TRUE, lastError |-> error]
    ELSE [break |-> FALSE, lastError |-> error,
          delay |-> Math_min(options.baseDelay * Math_pow(options.backoffFactor, attempt - 1),
                             options.maxDelay)]

\* the test of the for loop
retryWithBackoff_for(options, attempt) == attempt <= options.maxAttempts

\* performHealthCheck(): the health status it returns, the database healthy
toLowerCase(state) ==
    CASE state = "CLOSED" -> "closed"
      [] state = "OPEN" -> "open"
      [] state = "HALF_OPEN" -> "half_open"

performHealthCheck(breakers) ==
    LET services == [n \in DOMAIN breakers |->
                        [k |-> breakers[n].k, v |-> toLowerCase(breakers[n].v.state)]]
        unhealthyServices == {n \in DOMAIN services : services[n].v # "closed"}
    IN  [services |-> services,
         overall |-> IF unhealthyServices # {} THEN "degraded" ELSE "healthy"]

\* handleServerError opening the breaker whatever its failure count
handleServerError_always(breakers, context) ==
    IF ~Falsy(context.circuitBreakerName) /\ MapHas(breakers, context.circuitBreakerName.core)
    THEN LET breaker == MapVal(breakers, context.circuitBreakerName.core)
         IN  MapSet(breakers, context.circuitBreakerName.core,
                    [breaker EXCEPT !.failures = @ + 1, !.state = "OPEN"])
    ELSE breakers

\* handleServerError(error, context): the breakers afterwards
handleServerError(breakers, context) ==
    IF ~Falsy(context.circuitBreakerName) /\ MapHas(breakers, context.circuitBreakerName.core)
    THEN LET breaker == MapVal(breakers, context.circuitBreakerName.core)
             failed == [breaker EXCEPT !.failures = @ + 1]
         IN  MapSet(breakers, context.circuitBreakerName.core,
                    IF failed.failures >= failed.failureThreshold
                    THEN [failed EXCEPT !.state = "OPEN"]
                    ELSE failed)
    ELSE breakers

(***************************************************************************)
(* GitHubAIService                                                         *)
(***************************************************************************)
RATE_LIMIT == 10
RATE_WINDOW == 60000
CACHE_TTL == 600000
MAX_CACHED_LENGTH == 4000
KEY_DIGITS == 100000000

\* `ai_request_${Date.now().toString().slice(-8)}`: the last 8 decimal digits
\* of the clock (the whole number when it has fewer)
rateLimitKey(t) ==
    IF t < KEY_DIGITS
    THEN Str(<<"ai_request_", "", t>>, 12)
    ELSE Str(<<"ai_request_", "0", t % KEY_DIGITS>>, 19)

\* the first 16 hex digits of sha256(JSON.stringify({prompt, systemMessage,
\* options: {}, model})): a function of its arguments (collisions of the
\* digest are not modelled)
createCacheKey(prompt, systemMessage) ==
    Str(<<"sha256", prompt, systemMessage>>, 16)

\* validateStatus of the axios instance
validateStatus(status) == status < 500

\* axiosInstance.post over an upstream reply [status, data]; status 0 stands
\* for no reply (timeout after 30 s, connection refused).  A promise:
\* resolved with the response, or rejected with an error
axiosPost(reply) ==
    IF reply.status = 0
    THEN [resolved |-> FALSE,
          error |-> [message |-> "timeout of 30000ms exceeded", response |-> Null]]
    ELSE IF validateStatus(reply.status)
         THEN [resolved |-> TRUE, response |-> reply]
         ELSE [resolved |-> FALSE,
               error |-> [message |-> "Request failed with status code",
                          response |-> reply]]

\* content.trim(): the padding goes, the text stays
trim(content) == Str(content.core, content.len)

\* the catch block of generateResponse: the error it throws for `error`
catchBlock(error) ==
    LET status == IF error.response = Null THEN 0 ELSE error.response.status
    IN  IF status = 401
        THEN [kind |-> "threw", name |-> "Invalid GitHub token", cause |-> error.message]
        ELSE IF status = 429
        THEN [kind |-> "threw", name |-> "Rate limit exceeded (upstream)", cause |-> error.message]
        ELSE IF status = 403
        THEN [kind |-> "threw", name |-> "Access denied", cause |-> error.message]
        ELSE [kind |-> "threw", name |-> "AI service error", cause |-> error.message]

\* the inner try block over a resolved response, with a malformed body returned as null
tryBlock_null(response) ==
    IF response.data.choices = "none"
    THEN [kind |-> "returned", value |-> Null]
    ELSE IF response.data.choices = "no message"
    THEN [kind |-> "returned", value |-> Null]
    ELSE [kind |-> "returned", value |-> trim(response.data.content)]

\* the inner try block over a resolved response: the text it returns or the
\* error it throws (to the catch block)
tryBlock(response) ==
    IF response.data.choices = "none"
    THEN [kind |-> "threw",
          error |-> [message |-> "Invalid response format from GitHub AI API",
                     response |-> Null]]
    ELSE IF response.data.choices = "no message"
    THEN [kind |-> "threw",
          error |-> [message |-> "Cannot read properties of undefined",
                     response |-> Null]]
    ELSE [kind |-> "returned", value |-> trim(response.data.content)]

\* what generateResponse ends with, given what the awaited post settled to
settle(posted) ==
    IF posted.resolved
    THEN LET r == tryBlock(posted.response)
         IN  IF r.kind = "returned" THEN r ELSE catchBlock(r.error)
    ELSE catchBlock(posted.error)

\* the condition under which a result is stored in the cache, without the
\* length test
shouldCache_any(useCache, result) == useCache

\* the result stored whatever useCache says
shouldCache_always(useCache, result) == result.len < MAX_CACHED_LENGTH

\* the condition under which a result is stored in the cache
shouldCache(useCache, result) == useCache /\ result.len < MAX_CACHED_LENGTH

\* finally { connectionPool.release() }, run on the success path alone
finallyBlock_onSuccess(pool, outcome) ==
    IF outcome.kind = "returned"
    THEN [pool |-> ConnectionPool_release(pool), releases |-> 1]
    ELSE [pool |-> [self |-> pool, woken |-> {}], releases |-> 0]

\* finally { connectionPool.release() }: it runs however the try block ends
finallyBlock(pool, outcome) ==
    [pool |-> ConnectionPool_release(pool), releases |-> 1]

\* a catch block that sends the request again instead of throwing
afterSettle_retry(outcome) ==
    IF outcome.kind = "threw" THEN "granted" ELSE "done"

\* where generateResponse stands once the post has settled: it returns or
\* throws, it does not send the request again
afterSettle(outcome) == "done"

NewCall ==
    [pc |-> "new", prompt |-> Null, systemMessage |-> Null, useCache |-> FALSE,
     startedAt |-> 0, endedAt |-> 0, admitted |-> FALSE,
     acquires |-> 0, posts |-> 0, releases |-> 0,
     reply |-> Null, outcome |-> Null]

Ended(c, outcome, reply) ==
    [c EXCEPT !.pc = "done", !.outcome = outcome, !.reply = reply, !.endedAt = now]

\* generateResponse up to its first await: the rate limit, the cache
\* lookup, the call of connectionPool.acquire()
Start(i, prompt, systemMessage, useCache) ==
    LET limit == RateLimiter_checkLimit(rateLimiter, rateLimitKey(now),
                                        RATE_LIMIT, RATE_WINDOW, now)
        cacheKey == createCacheKey(prompt, systemMessage)
        cached == IF useCache
                  THEN EnhancedCache_get(responseCache, cacheKey, now)
                  ELSE [self |-> responseCache, result |-> Null]
        acq == ConnectionPool_acquire(connectionPool, i)
        c == [call[i] EXCEPT !.prompt = prompt, !.systemMessage = systemMessage,
                             !.useCache = useCache, !.startedAt = now,
                             !.admitted = limit.result]
    IN  /\ call[i].pc = "new"
        /\ \A j \in 1..(i - 1) : call[j].pc # "new"
        /\ rateLimiter' = limit.self
        /\ IF ~limit.result
           THEN /\ call' = [call EXCEPT ![i] = Ended(c,
                        catchBlock([message |-> "Rate limit exceeded. Please try again in a minute.",
                                    response |-> Null]), Null)]
                /\ UNCHANGED <<responseCache, connectionPool>>
           ELSE IF ~Falsy(cached.result)
           THEN /\ responseCache' = cached.self
                /\ call' = [call EXCEPT ![i] = Ended(c,
                        [kind |-> "returned", value |-> cached.result], Null)]
                /\ UNCHANGED connectionPool
           ELSE /\ responseCache' = cached.self
                /\ connectionPool' = acq.self
                /\ call' = [call EXCEPT ![i] =
                        [c EXCEPT !.pc = IF acq.resolved THEN "granted" ELSE "queued",
                                  !.acquires = @ + 1]]
        /\ admissions' = IF limit.result THEN Append(admissions, now) ELSE admissions
        /\ UNCHANGED <<now, ret, written, circuitBreakers, history>>

\* the continuation of `await connectionPool.acquire()`: the post is sent
Post(i) ==
    /\ call[i].pc = "granted"
    /\ call' = [call EXCEPT ![i] = [@ EXCEPT !.pc = "posting", !.posts = @ + 1]]
    /\ UNCHANGED <<now, cacheVars, rateLimiter, connectionPool, circuitBreakers,
                   admissions, history>>

\* the continuation of `await this.axiosInstance.post(...)`, the upstream
\* having answered `reply`: the try block, finally { release() }, the catch block
Complete(i, reply) ==
    LET c == call[i]
        outcome == settle(axiosPost(reply))
        cacheKey == createCacheKey(c.prompt, c.systemMessage)
        fin == finallyBlock(connectionPool, outcome)
        rel == fin.pool
    IN  /\ c.pc = "posting"
        /\ responseCache' =
              IF outcome.kind = "returned" /\ shouldCache(c.useCache, outcome.value)
              THEN EnhancedCache_set(responseCache, cacheKey, outcome.value,
                                     Num(CACHE_TTL), now)
              ELSE responseCache
        /\ connectionPool' = rel.self
        /\ call' = [j \in DOMAIN call |->
                      IF j = i
                      THEN [Ended([c EXCEPT !.releases = @ + fin.releases], outcome, reply)
                               EXCEPT !.pc = afterSettle(outcome)]
                      ELSE IF j \in rel.woken THEN [call[j] EXCEPT !.pc = "granted"]
                      ELSE call[j]]
        /\ UNCHANGED <<now, ret, written, rateLimiter, circuitBreakers, admissions,
                       history>>

\* the cache's sweep timer
Sweep ==
    /\ responseCache' = EnhancedCache_cleanup(responseCache, now)
    /\ UNCHANGED <<now, ret, written, serviceVars>>

(***************************************************************************)
(* The service: generateResponse over the module's instances               *)
(***************************************************************************)
RESPONSE_CACHE_SIZE == 500
RESPONSE_CACHE_TTL == 300000

Prompts == {Str("hello", 5)}
DefaultSystemMessage == Str("You are a helpful AI assistant", 30)

\* what the upstream may answer
Completion(core, len, pad) ==
    [status |-> 200,
     data |-> [choices |-> "ok", content |-> [core |-> core, len |-> len, pad |-> pad]]]
NoMessage == [status |-> 200, data |-> [choices |-> "no message"]]
ErrorBody(status) == [status |-> status, data |-> [choices |-> "none"]]
NoReply == [status |-> 0]

\* `earlier` requests were admitted at time 0, before the invocations of the model
ServiceInit(calls, maxConnections, earlier) ==
    /\ now = 0
    /\ responseCache = EnhancedCache(RESPONSE_CACHE_SIZE, RESPONSE_CACHE_TTL)
    /\ ret = [op |-> "none"]
    /\ written = << >>
    /\ rateLimiter =
          IF earlier = 0 THEN RateLimiter
          ELSE [limits |-> <<[k |-> rateLimitKey(0), v |-> [n \in 1..earlier |-> 0]]>>]
    /\ connectionPool = ConnectionPool(maxConnections)
    /\ circuitBreakers = errorRecovery
    /\ call = [i \in 1..calls |-> NewCall]
    /\ admissions = [n \in 1..earlier |-> 0]
    /\ history = << >>

Clock(times) ==
    /\ \E t \in times : Tick(t)
    /\ UNCHANGED <<cacheVars, serviceVars>>

(***************************************************************************)
(* Spec: MaxCalls invocations of generateResponse, in flight together,     *)
(* the pool having PoolSize connections.                                   *)
(***************************************************************************)
MaxCalls == 3
PoolSize == 1

Times == {0, CACHE_TTL + 1}
Replies == {Completion("short", 5, 1), ErrorBody(200), ErrorBody(500), NoReply}

Init == ServiceInit(MaxCalls, PoolSize, 0)

Next ==
    \/ \E i \in DOMAIN call, prompt \in Prompts, useCache \in BOOLEAN :
          Start(i, prompt, DefaultSystemMessage, useCache)
    \/ \E i \in DOMAIN call : Post(i)
    \/ \E i \in DOMAIN call, reply \in Replies : Complete(i, reply)
    \/ Sweep
    \/ Clock(Times)

Spec == Init /\ [][Next]_vars

(***************************************************************************)
(* SpecSeq: MaxSeqCalls invocations of generateResponse, one after the     *)
(* other, after none or RATE_LIMIT - 1 requests admitted at time 0.        *)
(***************************************************************************)
MaxSeqCalls == 2

SeqTimes == {0, 1, CACHE_TTL + 1}
SeqSystemMessages == {DefaultSystemMessage}
SeqReplies ==
    {Completion("short", 5, 1), Completion("long", MAX_CACHED_LENGTH, 0),
     Completion("", 0, 2), ErrorBody(200), NoMessage,
     ErrorBody(401), ErrorBody(403), ErrorBody(500), NoReply}

SeqInit == \E earlier \in {0, RATE_LIMIT - 1} : ServiceInit(MaxSeqCalls, PoolSize, earlier)

SeqStart(i, prompt, systemMessage, useCache) ==
    /\ \A j \in 1..(i - 1) : call[j].pc = "done"
    /\ Start(i, prompt, systemMessage, useCache)

SeqNext ==
    \/ \E i \in DOMAIN call, prompt \in Prompts, systemMessage \in SeqSystemMessages,
          useCache \in BOOLEAN : SeqStart(i, prompt, systemMessage, useCache)
    \/ \E i \in DOMAIN call : Post(i)
    \/ \E i \in DOMAIN call, reply \in SeqReplies : Complete(i, reply)
    \/ Sweep
    \/ Clock(SeqTimes)

SpecSeq == SeqInit /\ [][SeqNext]_vars

(***************************************************************************)
(* Claims on generateResponse                                              *)
(***************************************************************************)
Done(i) == call[i].pc = "done"
InProgress(i) == call[i].pc \in {"queued", "granted", "posting"}
\* the invocations whose HTTP call is in flight
InFlight == {i \in DOMAIN call : call[i].pc = "posting"}
Replied(i) == call[i].reply # Null
Returned(i) == Done(i) /\ call[i].outcome.kind = "returned"
Threw(i) == Done(i) /\ call[i].outcome.kind = "threw"
\* the invocation ended without having called acquire(): rejected by the
\* rate limit, or answered from the cache
EndedEarly(i) == Done(i) /\ (~call[i].admitted \/ ~Replied(i))

\* C1: under any interleaving of generateResponse calls, the number of HTTP
\* calls in flight never exceeds the pool's maxConnections, nor its
\* activeConnections.
C1_InFlightWithinPool ==
    /\ Cardinality(InFlight) <= connectionPool.maxConnections
    /\ Cardinality(InFlight) <= connectionPool.activeConnections

\* C1 witness: the pool is saturated by calls in flight while another call waits
C1_Saturated ==
    /\ Cardinality(InFlight) = connectionPool.maxConnections
    /\ Len(connectionPool.queue) > 0

Consecutive(i) ==
    /\ i + 1 \in DOMAIN call
    /\ Done(i) /\ Done(i + 1)
    /\ call[i + 1].prompt = call[i].prompt
    /\ call[i + 1].systemMessage = call[i].systemMessage
    /\ call[i].useCache /\ call[i + 1].useCache
    /\ Returned(i) /\ call[i].posts = 1
    /\ call[i + 1].startedAt <= call[i].endedAt + CACHE_TTL
    /\ call[i + 1].admitted

\* the second call returned the first call's text, without the pool or the network
SecondFromCache(i) ==
    /\ Returned(i + 1)
    /\ call[i + 1].outcome.value = call[i].outcome.value
    /\ call[i + 1].posts = 0
    /\ call[i + 1].acquires = 0

C4_TenPerMinute ==
    \A n \in DOMAIN admissions :
        Cardinality({m \in 1..(n - 1) : admissions[m] > admissions[n] - RATE_WINDOW})
            < RATE_LIMIT

\* C5: every upstream call of generateResponse goes through the 'github_ai'
\* breaker: a call that was sent is counted in its totalRequests, an upstream
\* 5xx failure in its failures and failedRequests.
C5_ThroughBreaker ==
    LET breaker == MapVal(circuitBreakers, "github_ai")
    IN  \A i \in DOMAIN call :
          /\ call[i].posts > 0 => breaker.stats.totalRequests > 0
          /\ (Done(i) /\ Replied(i) /\ call[i].reply.status >= 500) =>
                (breaker.failures > 0 /\ breaker.stats.failedRequests > 0)

\* C6: an upstream 401 or 403 makes generateResponse fail with the error of
\* that status, not with the generic 'AI service error'.
C6_StatusSpecificError ==
    \A i \in DOMAIN call :
        (Done(i) /\ Replied(i) /\ call[i].reply.status \in {401, 403}) =>
            /\ Threw(i)
            /\ call[i].outcome.name =
                  IF call[i].reply.status = 401 THEN "Invalid GitHub token"
                  ELSE "Access denied"

\* the call went down a failure path: the rate limit rejected it, the HTTP
\* call was rejected or timed out, or the body has no choices[0] with a message
FailurePath(i) ==
    \/ ~call[i].admitted
    \/ /\ Replied(i)
       /\ \/ call[i].reply.status = 0
          \/ call[i].reply.status >= 500
          \/ call[i].reply.data.choices # "ok"

\* C7: on a failure path generateResponse ends by throwing an error, never by
\* returning a value.
C7_FailureThrows ==
    \A i \in DOMAIN call : (Done(i) /\ FailurePath(i)) => Threw(i)

\* C7 witness: one call was rejected by the rate limit, another got a body
\* without choices; both threw
C7_Rejections ==
    /\ \E i \in DOMAIN call : Threw(i) /\ ~call[i].admitted
    /\ \E i \in DOMAIN call : Threw(i) /\ Replied(i) /\ call[i].reply = ErrorBody(200)

\* C8: one invocation makes at most one upstream HTTP call and at most one
\* acquire(), whatever the outcome.
C8_NoRetry ==
    \A i \in DOMAIN call : call[i].posts <= 1 /\ call[i].acquires <= 1

\* C8 witness: a call whose one upstream call failed, and which ended there
C8_FailedOnce ==
    \E i \in DOMAIN call : Threw(i) /\ Replied(i) /\ call[i].posts = 1

\* C9: when the upstream call succeeds, the result is stored (with useCache)
\* under the request's key with expiry now + 10 minutes if its length is below
\* 4000; otherwise the call leaves the cache as it was.
C9_CacheBelowCeiling ==
    [][\A i \in DOMAIN call :
         (call[i].pc = "posting" /\ call'[i].pc = "done"
            /\ call'[i].outcome.kind = "returned") =>
            LET result == call'[i].outcome.value
                cacheKey == createCacheKey(call[i].prompt, call[i].systemMessage)
            IN  IF call[i].useCache /\ result.len < MAX_CACHED_LENGTH
                THEN /\ MapHas(responseCache'.cache, cacheKey)
                     /\ MapVal(responseCache'.cache, cacheKey) =
                           [value |-> result, expiry |-> now + CACHE_TTL, hits |-> 0]
                ELSE responseCache' = responseCache]_vars

\* C9 witness: a call returned an upstream text of 4000 characters, and the
\* cache holds nothing under its key
C9_LongNotCached ==
    \E i \in DOMAIN call :
        /\ Returned(i) /\ Replied(i) /\ call[i].useCache
        /\ call[i].outcome.value.len >= MAX_CACHED_LENGTH
        /\ ~MapHas(responseCache.cache, createCacheKey(call[i].prompt, call[i].systemMessage))

(***************************************************************************)
(* SpecCache: one EnhancedCache(CacheMaxSize, CacheTtl) driven by its      *)
(* public operations, its sweep and the clock.                             *)
(***************************************************************************)
CacheMaxSize == 1
CacheTtl == 1
MaxNow == 2
MaxHits == 1

CacheKeys == {Str("a", 1), Str("b", 1)}
CacheValues == {Str("x", 1), Str("y", 1)}
TtlArgs == {Null, Num(0), Num(2)}

NoRet == [op |-> "none"]
Forget(w, keys) == [k \in DOMAIN w \ keys |-> w[k]]

\* the entry get/has find under key before they act, Null when there is none
Found(key) ==
    IF MapHas(responseCache.cache, key) THEN MapVal(responseCache.cache, key) ELSE Null

CacheInit ==
    /\ now = 0
    /\ responseCache = EnhancedCache(CacheMaxSize, CacheTtl)
    /\ ret = NoRet
    /\ written = << >>
    /\ rateLimiter = RateLimiter
    /\ connectionPool = ConnectionPool(0)
    /\ circuitBreakers = errorRecovery
    /\ call = << >>
    /\ admissions = << >>
    /\ history = << >>

CSet(key, value, customTtl) ==
    LET after == EnhancedCache_set(responseCache, key, value, customTtl, now)
        evicted == MapKeys(responseCache.cache) \ MapKeys(after.cache)
    IN  /\ responseCache' = after
        /\ ret' = NoRet
        /\ written' = (key :> [value |-> value, at |-> now, customTtl |-> customTtl])
                        @@ Forget(written, evicted)
        /\ UNCHANGED <<now, serviceVars>>

CGet(key) ==
    LET r == EnhancedCache_get(responseCache, key, now)
    IN  /\ \A i \in DOMAIN r.self.cache : r.self.cache[i].v.hits <= MaxHits
        /\ responseCache' = r.self
        /\ ret' = [op |-> "get", key |-> key, result |-> r.result,
                   found |-> Found(key)]
        /\ UNCHANGED <<now, written, serviceVars>>

CHas(key) ==
    LET r == EnhancedCache_has(responseCache, key, now)
    IN  /\ responseCache' = r.self
        /\ ret' = [op |-> "has", key |-> key, result |-> r.result,
                   found |-> Found(key)]
        /\ UNCHANGED <<now, written, serviceVars>>

CDelete(key) ==
    /\ responseCache' = EnhancedCache_delete(responseCache, key)
    /\ ret' = NoRet
    /\ written' = Forget(written, {key})
    /\ UNCHANGED <<now, serviceVars>>

CClear ==
    /\ responseCache' = EnhancedCache_clear(responseCache)
    /\ ret' = NoRet
    /\ written' = << >>
    /\ UNCHANGED <<now, serviceVars>>

CCleanup ==
    LET after == EnhancedCache_cleanup(responseCache, now)
    IN  /\ responseCache' = after
        /\ ret' = [op |-> "cleanup", before |-> responseCache]
        /\ UNCHANGED <<now, written, serviceVars>>

\* evictLRU() called from outside set()
CEvictLRU ==
    LET after == EnhancedCache_evictLRU(responseCache, now)
        evicted == MapKeys(responseCache.cache) \ MapKeys(after.cache)
    IN  /\ responseCache' = after
        /\ ret' = [op |-> "evictLRU", before |-> responseCache]
        /\ written' = Forget(written, evicted)
        /\ UNCHANGED <<now, serviceVars>>

CTick ==
    /\ \E t \in 0..MaxNow : Tick(t)
    /\ ret' = NoRet
    /\ UNCHANGED <<responseCache, written, serviceVars>>

CacheNext ==
    \/ \E key \in CacheKeys, value \in CacheValues, customTtl \in TtlArgs :
          CSet(key, value, customTtl)
    \/ \E key \in CacheKeys : CGet(key)
    \/ \E key \in CacheKeys : CHas(key)
    \/ \E key \in CacheKeys : CDelete(key)
    \/ CClear
    \/ CCleanup
    \/ CEvictLRU
    \/ CTick

SpecCache == CacheInit /\ [][CacheNext]_vars

(***************************************************************************)
(* Claims on the cache                                                     *)
(***************************************************************************)
\* the last operation was get(k) of a key whose last set() is still in force
GotWritten == ret.op = "get" /\ ret.key \in DOMAIN written

\* the ttl the claim speaks of: the one passed, the default when none is passed
StatedTtl(w) == IF w.customTtl = Null THEN responseCache.ttl ELSE w.customTtl.n
\* the ttl set() uses: customTtl || this.ttl
UsedTtl(w) == IF Falsy(w.customTtl) THEN responseCache.ttl ELSE w.customTtl.n

C11_NoStaleRead ==
    ret.op \in {"get", "has"} =>
        /\ (ret.op = "get" /\ ret.result # Null) =>
               /\ ret.found # Null
               /\ now <= ret.found.expiry
               /\ ret.result = ret.found.value
        /\ (ret.found # Null /\ now > ret.found.expiry) =>
               /\ ~MapHas(responseCache.cache, ret.key)
               /\ ~MapHas(responseCache.accessTimes, ret.key)
               /\ ret.result = IF ret.op = "get" THEN Null ELSE FALSE

\* C11 witness: a get found an entry past its expiry, answered null and the
\* entry is gone
C11_ExpiredDeleted ==
    /\ ret.op = "get"
    /\ ret.found # Null
    /\ now > ret.found.expiry
    /\ ret.result = Null
    /\ ~MapHas(responseCache.cache, ret.key)

\* C12 as stated: the number of stored entries never exceeds maxSize, also when
\* several calls share one clock value.
C12_Bounded == Len(responseCache.cache) <= responseCache.maxSize

\* the step is a set(key, ...)
IsSet(key) == \E value \in CacheValues, customTtl \in TtlArgs : CSet(key, value, customTtl)

\* C13 as stated: a set of a new key on a cache holding maxSize entries evicts
\* exactly one entry, the one with the oldest last-access time; a set of a
\* present key evicts nothing.
C13_EvictsOldest ==
    [][\A key \in CacheKeys : IsSet(key) =>
        LET before == MapKeys(responseCache.cache)
            evicted == before \ MapKeys(responseCache'.cache)
            accessed(k) == MapVal(responseCache.accessTimes, k)
        IN  IF key \in before
            THEN evicted = {}
            ELSE Len(responseCache.cache) = responseCache.maxSize =>
                   \E victim \in before :
                      /\ evicted = {victim}
                      /\ \A k \in before : accessed(victim) <= accessed(k)]_vars

\* C14: a cleanup() at time now removes every entry with now > expiry from the
\* entries and from the access times, and leaves every entry with
\* now <= expiry as it was (value, expiry, hits, last-access time).
C14_SweepRemovesExpiredOnly ==
    ret.op = "cleanup" =>
        \A k \in MapKeys(ret.before.cache) :
            IF now > MapVal(ret.before.cache, k).expiry
            THEN /\ ~MapHas(responseCache.cache, k)
                 /\ ~MapHas(responseCache.accessTimes, k)
            ELSE /\ MapHas(responseCache.cache, k)
                 /\ MapVal(responseCache.cache, k) = MapVal(ret.before.cache, k)
                 /\ MapHas(responseCache.accessTimes, k)
                 /\ MapVal(responseCache.accessTimes, k)
                      = MapVal(ret.before.accessTimes, k)

\* C14 witness: a sweep removed an expired entry and kept an unexpired one
C14_SweptSome ==
    /\ ret.op = "cleanup"
    /\ Len(responseCache.cache) < Len(ret.before.cache)
    /\ \E i \in DOMAIN responseCache.cache : now <= responseCache.cache[i].v.expiry

(***************************************************************************)
(* SpecLimiter: one RateLimiter driven by checkLimit, its cleanup timer    *)
(* and the clock.  Every key has its policy, a limit and a window that     *)
(* all its checkLimit calls pass: "u" a short window, "v" a window longer  *)
(* than the maxAge of cleanup.  `call` is the log of the checkLimit calls. *)
(***************************************************************************)
Limit == 2
WindowMs == 2
MaxChecks == 4

LimiterKeys == {Str("u", 1), Str("v", 1)}
LimitOf(key) == Limit
WindowOf(key) == IF key = Str("u", 1) THEN WindowMs ELSE MAX_AGE + WindowMs
LimiterTimes == 0..(WindowMs + 1) \cup {MAX_AGE}

LimiterInit ==
    /\ now = 0
    /\ rateLimiter = RateLimiter
    /\ ret = NoRet
    /\ call = << >>
    /\ responseCache = EnhancedCache(0, 0)
    /\ written = << >>
    /\ connectionPool = ConnectionPool(0)
    /\ circuitBreakers = errorRecovery
    /\ admissions = << >>
    /\ history = << >>

LimiterFrame ==
    UNCHANGED <<responseCache, written, connectionPool, circuitBreakers, admissions,
                history>>

LCheckLimit(key) ==
    LET r == RateLimiter_checkLimit(rateLimiter, key, LimitOf(key), WindowOf(key), now)
    IN  /\ Len(call) < MaxChecks
        /\ rateLimiter' = r.self
        /\ ret' = [op |-> "checkLimit", key |-> key, result |-> r.result,
                   before |-> rateLimiter]
        /\ call' = Append(call, [key |-> key, at |-> now, allowed |-> r.result])
        /\ UNCHANGED now
        /\ LimiterFrame

LCleanup ==
    /\ rateLimiter' = RateLimiter_cleanup(rateLimiter, now)
    /\ ret' = [op |-> "cleanup", before |-> rateLimiter]
    /\ UNCHANGED <<now, call>>
    /\ LimiterFrame

LTick ==
    /\ \E t \in LimiterTimes : Tick(t)
    /\ ret' = NoRet
    /\ UNCHANGED <<rateLimiter, call>>
    /\ LimiterFrame

LimiterNext ==
    \/ \E key \in LimiterKeys : LCheckLimit(key)
    \/ LCleanup
    \/ LTick

SpecLimiter == LimiterInit /\ [][LimiterNext]_vars

(***************************************************************************)
(* Claims on the rate limiter                                              *)
(***************************************************************************)
\* the checkLimit calls of key that returned true at a time in (lo, hi]
Admitted(key, lo, hi) ==
    {i \in DOMAIN call : /\ call[i].key = key
                         /\ call[i].allowed
                         /\ lo < call[i].at
                         /\ call[i].at <= hi}

\* the timestamps stored for key, none when the key is not in the map
History(limiter, key) ==
    IF MapHas(limiter.limits, key) THEN MapVal(limiter.limits, key) ELSE << >>

WithinWindow(key) ==
    \A t \in LimiterTimes :
        Cardinality(Admitted(key, t - WindowOf(key), t)) <= LimitOf(key)

\* C15 as stated: for every key, whatever its fixed limit and window, the calls
\* that returned true with timestamps in any interval (t - windowMs, t] are
\* never more than limit.
C15_SlidingWindow == \A key \in LimiterKeys : WithinWindow(key)

\* C15 amended: for every key whose fixed window is at most 3600000 ms (the
\* age from which cleanup() drops timestamps), the calls that returned true
\* with timestamps in any interval (t - windowMs, t] are never more than limit.
C15_SlidingWindowUpToMaxAge ==
    \A key \in LimiterKeys : WindowOf(key) <= MAX_AGE => WithinWindow(key)

\* C15 witness: a call of a short-window key was denied with limit admitted
\* calls in the window that ends at it
C15_Denied ==
    \E i \in DOMAIN call :
        /\ WindowOf(call[i].key) <= MAX_AGE
        /\ ~call[i].allowed
        /\ Cardinality(Admitted(call[i].key, call[i].at - WindowOf(call[i].key), call[i].at))
             = LimitOf(call[i].key)

\* C16: a checkLimit that returns false leaves for the key the timestamps it
\* had, less those out of the window: no timestamp is added.
C16_DeniedNotRecorded ==
    (ret.op = "checkLimit" /\ ~ret.result) =>
        History(rateLimiter, ret.key)
          = SelectSeq(History(ret.before, ret.key),
                      LAMBDA time : time > now - WindowOf(ret.key))

\* C16 witness: a key was denied twice in a row, its history the same after
\* the second denial
C16_DeniedAgain ==
    /\ ret.op = "checkLimit"
    /\ ~ret.result
    /\ Len(History(rateLimiter, ret.key)) = LimitOf(ret.key)
    /\ \E i \in 1..(Len(call) - 1) : call[i].key = ret.key /\ ~call[i].allowed

\* the time of the last call of key admitted before call i
LastAdmitted(key, i) ==
    LET earlier == {m \in 1..(i - 1) : call[m].key = key /\ call[m].allowed}
    IN  call[CHOOSE m \in earlier : \A n \in earlier : n <= m].at

\* call j is the first call of the key admitted or not since the denial i, made
\* at least one window after the last admission
Recovered(i, j) ==
    /\ i < j
    /\ call[j].key = call[i].key
    /\ ~call[i].allowed
    /\ \A m \in (i + 1)..(j - 1) : call[m].key = call[i].key => ~call[m].allowed
    /\ call[j].at >= LastAdmitted(call[i].key, i) + WindowOf(call[i].key)

\* C17: after a key was denied, its last admitted request being of time t0, a
\* checkLimit of the key at a time >= t0 + windowMs, no request of the key
\* admitted in between, returns true.
C17_AllowedAfterWindow ==
    \A i \in DOMAIN call, j \in DOMAIN call : Recovered(i, j) => call[j].allowed

\* C17 witness: a key denied at t0 is allowed again at exactly t0 + windowMs
C17_AllowedAtWindow ==
    \E i \in DOMAIN call, j \in DOMAIN call :
        /\ Recovered(i, j)
        /\ call[j].allowed
        /\ call[j].at = LastAdmitted(call[i].key, i) + WindowOf(call[i].key)

\* what the RateWindow invariant says of a key
RateWindow(key) ==
    LET stored == History(rateLimiter, key)
    IN  /\ \A n \in DOMAIN stored : stored[n] > now - WindowOf(key)
        /\ Len(stored) = Cardinality(Admitted(key, now - WindowOf(key), now))

\* C18 as stated: in every reachable state, the clock advancing between calls,
\* every timestamp stored for a key is > now - windowMs and their number is the
\* number of requests of the key admitted in the trailing window.
C18_RateWindow == \A key \in LimiterKeys : RateWindow(key)

\* C18 amended: when checkLimit(key, limit, windowMs) has returned, windowMs at
\* most 3600000, and the clock has not advanced since, every timestamp stored
\* for key is > now - windowMs and their number is the number of requests of
\* the key admitted in the trailing window.
C18_RateWindowAfterCheck ==
    (ret.op = "checkLimit" /\ WindowOf(ret.key) <= MAX_AGE) => RateWindow(ret.key)

\* C18 witness: a checkLimit found a timestamp older than the window and
\* pruned it
C18_Pruned ==
    /\ ret.op = "checkLimit"
    /\ WindowOf(ret.key) <= MAX_AGE
    /\ \E n \in DOMAIN History(ret.before, ret.key) :
          History(ret.before, ret.key)[n] <= now - WindowOf(ret.key)

\* C19: checkLimit(k, ...) leaves the histories of the other keys as they were.
C19_OtherKeysUntouched ==
    ret.op = "checkLimit" =>
        \A k \in (MapKeys(ret.before.limits) \cup MapKeys(rateLimiter.limits)) \ {ret.key} :
            /\ MapHas(ret.before.limits, k)
            /\ MapHas(rateLimiter.limits, k)
            /\ MapVal(rateLimiter.limits, k) = MapVal(ret.before.limits, k)

\* C19 witness: a checkLimit changed its key's history while another key had
\* timestamps stored
C19_OtherKeyStored ==
    /\ ret.op = "checkLimit"
    /\ History(rateLimiter, ret.key) # History(ret.before, ret.key)
    /\ \E k \in MapKeys(rateLimiter.limits) \ {ret.key} : Len(MapVal(rateLimiter.limits, k)) > 0

(***************************************************************************)
(* SpecPool: one ConnectionPool(PoolSize) and PoolClients callers.  A      *)
(* caller calls acquire(), holds the slot once the promise is resolved and *)
(* calls release(); release() takes no argument and checks nothing, so a   *)
(* caller that holds no slot can call it too.  `call` is the callers.      *)
(***************************************************************************)
PoolClients == 3

Clients == 1..PoolClients

PoolInit ==
    /\ now = 0
    /\ connectionPool = ConnectionPool(PoolSize)
    /\ call = [c \in Clients |-> [pc |-> "idle", stray |-> FALSE]]
    /\ ret = NoRet
    /\ responseCache = EnhancedCache(0, 0)
    /\ written = << >>
    /\ rateLimiter = RateLimiter
    /\ circuitBreakers = errorRecovery
    /\ admissions = << >>
    /\ history = << >>

PoolFrame ==
    UNCHANGED <<now, responseCache, written, rateLimiter, circuitBreakers, admissions,
                history>>

\* the callers after a release(): the one whose promise it resolved holds a slot
Granted(callers, woken) ==
    [c \in Clients |-> IF c \in woken THEN [callers[c] EXCEPT !.pc = "holding"]
                       ELSE callers[c]]

PAcquire(c) ==
    LET r == ConnectionPool_acquire(connectionPool, c)
    IN  /\ call[c].pc = "idle"
        /\ connectionPool' = r.self
        /\ call' = [call EXCEPT ![c].pc = IF r.resolved THEN "holding" ELSE "queued"]
        /\ ret' = [op |-> "acquire", by |-> c, before |-> connectionPool]
        /\ PoolFrame

\* release() by the holder of a slot
PRelease(c) ==
    LET r == ConnectionPool_release(connectionPool)
    IN  /\ call[c].pc = "holding"
        /\ connectionPool' = r.self
        /\ call' = Granted([call EXCEPT ![c].pc = "idle"], r.woken)
        /\ ret' = [op |-> "release", by |-> c, before |-> connectionPool]
        /\ PoolFrame

\* release() by a caller that holds no slot
PStrayRelease(c) ==
    LET r == ConnectionPool_release(connectionPool)
    IN  /\ call[c].pc # "holding"
        /\ ~call[c].stray
        /\ connectionPool' = r.self
        /\ call' = Granted([call EXCEPT ![c].stray = TRUE], r.woken)
        /\ ret' = [op |-> "release", by |-> c, before |-> connectionPool]
        /\ PoolFrame

PoolNext ==
    \/ \E c \in Clients : PAcquire(c)
    \/ \E c \in Clients : PRelease(c)
    \/ \E c \in Clients : PStrayRelease(c)

SpecPool == PoolInit /\ [][PoolNext]_vars

\* every holder of a slot calls release()
SpecPoolFair == SpecPool /\ \A c \in Clients : WF_vars(PRelease(c))

(***************************************************************************)
(* Claims on the pool                                                      *)
(***************************************************************************)
ActiveInRange ==
    /\ 0 <= connectionPool.activeConnections
    /\ connectionPool.activeConnections <= connectionPool.maxConnections

\* every release() so far was called by the holder of a slot
Paired == \A c \in Clients : ~call[c].stray

\* C20 as stated: after any sequence of acquire() and release() calls,
\* 0 <= activeConnections <= maxConnections.
C20_ActiveInRange == ActiveInRange

\* C20 amended: after any sequence of acquire() and release() calls in which
\* every release() is called by a caller that holds a slot,
\* 0 <= activeConnections <= maxConnections.
C20_ActiveInRangeIfPaired == Paired => ActiveInRange

\* C20 witness: after a release by a holder, every slot is held and a caller
\* waits in the queue
C20_Full ==
    /\ Paired
    /\ ret.op = "release"
    /\ connectionPool.activeConnections = connectionPool.maxConnections
    /\ Len(connectionPool.queue) > 0

\* C21: the queued acquirers are granted in the order of their acquire() calls:
\* an acquire() that finds acquirers queued joins the queue behind them, and a
\* release() that finds the queue non-empty grants the slot to the head of the
\* queue and to no one else, the others staying queued in their order.
C21_Fifo ==
    /\ (ret.op = "acquire" /\ Len(ret.before.queue) > 0) =>
          /\ call[ret.by].pc = "queued"
          /\ connectionPool.queue = Append(ret.before.queue, ret.by)
    /\ (ret.op = "release" /\ Len(ret.before.queue) > 0) =>
          /\ call[Head(ret.before.queue)].pc = "holding"
          /\ connectionPool.queue = Tail(ret.before.queue)
          /\ \A n \in DOMAIN connectionPool.queue :
                call[connectionPool.queue[n]].pc = "queued"

\* C21 witness: a release found two acquirers queued and granted the first,
\* the second still waiting
C21_HeadGranted ==
    /\ Paired
    /\ ret.op = "release"
    /\ Len(ret.before.queue) >= 2
    /\ call[ret.before.queue[1]].pc = "holding"
    /\ call[ret.before.queue[2]].pc = "queued"

(***************************************************************************)
(* SpecBreaker: the breaker "api" of an ErrorRecoverySystem, with          *)
(* failureThreshold FailureThreshold and recoveryTimeout RecoveryTimeout,  *)
(* under MaxBreakerCalls invocations of executeWithCircuitBreaker, in      *)
(* flight together, and calls of handleServerError.  `call` is the         *)
(* invocations, `ret` the last step with the breaker before it, `history`  *)
(* the run of failed calls since the breaker was last CLOSED with no       *)
(* failure.  The clock starts at Epoch, Date.now() counting from 1970.     *)
(***************************************************************************)
FailureThreshold == 2
RecoveryTimeout == 2
MaxBreakerCalls == 3
MaxServerErrors == 1
Epoch == 1000

BreakerNames == {"api", "unknown"}
BreakerTimes == {Epoch, Epoch + 1, Epoch + RecoveryTimeout, Epoch + RecoveryTimeout + 1}
OperationResult == Str("result", 6)
FallbackResult == Str("fallback", 8)
OperationError == [message |-> "operation failed"]
NotFound == [message |-> "Circuit breaker not found"]

NewBreakerCall ==
    [pc |-> "new", breakerName |-> "", fallback |-> FALSE, operations |-> 0,
     fallbacks |-> 0, shortCircuit |-> FALSE, entered |-> "", settled |-> "",
     outcome |-> Null]

\* the breaker "api"
Api == MapVal(circuitBreakers, "api")

Step(ev, i, before, logged) == [op |-> ev, i |-> i, before |-> before, logged |-> logged]

\* failed: the calls that failed in a row since the breaker was CLOSED with no
\* failure; inARow: no call succeeded and no handleServerError came in between;
\* serverErrors: the handleServerError calls so far
Fresh(h) == [h EXCEPT !.failed = 0, !.inARow = TRUE]

BreakerInit ==
    /\ now = Epoch
    /\ circuitBreakers = createCircuitBreaker(<< >>, "api", FailureThreshold, RecoveryTimeout)
    /\ call = [i \in 1..MaxBreakerCalls |-> NewBreakerCall]
    /\ history = [failed |-> 0, inARow |-> TRUE, serverErrors |-> 0]
    /\ ret = NoRet
    /\ responseCache = EnhancedCache(0, 0)
    /\ written = << >>
    /\ rateLimiter = RateLimiter
    /\ connectionPool = ConnectionPool(0)
    /\ admissions = << >>

BreakerFrame ==
    UNCHANGED <<responseCache, written, rateLimiter, connectionPool, admissions>>

\* executeWithCircuitBreaker(breakerName, operation, fallback) up to its first
\* await: operation() is called, or the fallback in place of it
BEnter(i, breakerName, fallback) ==
    /\ call[i].pc = "new"
    /\ \A j \in 1..(i - 1) : call[j].pc # "new"
    /\ UNCHANGED <<now, history>>
    /\ BreakerFrame
    /\ ret' = Step("enter", i, Api, << >>)
    /\ IF ~MapHas(circuitBreakers, breakerName)
       THEN /\ call' = [call EXCEPT ![i] = [@ EXCEPT
                    !.pc = "done", !.breakerName = breakerName, !.fallback = fallback,
                    !.outcome = [threw |-> NotFound]]]
            /\ UNCHANGED circuitBreakers
       ELSE LET e == executeWithCircuitBreaker_enter(MapVal(circuitBreakers, breakerName), now)
                c == [call[i] EXCEPT !.breakerName = breakerName, !.fallback = fallback,
                                     !.shortCircuit = e.shortCircuit,
                                     !.entered = e.breaker.state]
            IN  /\ circuitBreakers' = MapSet(circuitBreakers, breakerName, e.breaker)
                /\ call' = [call EXCEPT ![i] =
                      IF ~e.shortCircuit
                      THEN [c EXCEPT !.pc = "operation", !.operations = @ + 1]
                      ELSE IF fallback
                      THEN [c EXCEPT !.pc = "done", !.fallbacks = @ + 1,
                                     !.outcome = [returned |-> FallbackResult]]
                      ELSE [c EXCEPT !.pc = "done", !.outcome = [returned |-> Null]]]

\* operation() resolves: the rest of the try block
BResolve(i) ==
    LET after == executeWithCircuitBreaker_try(MapVal(circuitBreakers, call[i].breakerName))
    IN  /\ call[i].pc = "operation"
        /\ circuitBreakers' = MapSet(circuitBreakers, call[i].breakerName, after)
        /\ ret' = Step("resolve", i, Api, << >>)
        /\ history' = IF after.state = "CLOSED" /\ after.failures = 0
                      THEN Fresh(history)
                      ELSE [history EXCEPT !.inARow = FALSE]
        /\ call' = [call EXCEPT ![i] = [@ EXCEPT
                !.pc = "done", !.settled = "resolved",
                !.outcome = [returned |-> OperationResult]]]
        /\ UNCHANGED now
        /\ BreakerFrame

\* operation() rejects: the catch block
BReject(i) ==
    LET c == executeWithCircuitBreaker_catch(call[i].breakerName,
                 MapVal(circuitBreakers, call[i].breakerName), now)
    IN  /\ call[i].pc = "operation"
        /\ circuitBreakers' = MapSet(circuitBreakers, call[i].breakerName, c.breaker)
        /\ ret' = Step("reject", i, Api, c.logged)
        /\ history' = [history EXCEPT !.failed = @ + 1]
        /\ call' = [call EXCEPT ![i] =
              IF call[i].fallback
              THEN [@ EXCEPT !.pc = "done", !.settled = "rejected", !.fallbacks = @ + 1,
                             !.outcome = [returned |-> FallbackResult]]
              ELSE [@ EXCEPT !.pc = "done", !.settled = "rejected",
                             !.outcome = [threw |-> OperationError]]]
        /\ UNCHANGED now
        /\ BreakerFrame

\* handleServerError(error, {circuitBreakerName})
BHandleServerError(circuitBreakerName) ==
    /\ history.serverErrors < MaxServerErrors
    /\ circuitBreakers' = handleServerError(circuitBreakers,
                              [circuitBreakerName |-> circuitBreakerName])
    /\ ret' = Step("handleServerError", 0, Api, << >>)
    /\ history' = [history EXCEPT !.inARow = FALSE, !.serverErrors = @ + 1]
    /\ UNCHANGED <<now, call>>
    /\ BreakerFrame

\* time passes; the interval of startHealthMonitoring may fire in it
BTick ==
    /\ \E t \in BreakerTimes : Tick(t)
    /\ ret' = Step("tick", 0, Api, <<performHealthCheck(circuitBreakers)>>)
    /\ UNCHANGED <<circuitBreakers, call, history>>
    /\ BreakerFrame

BreakerNext ==
    \/ \E i \in 1..MaxBreakerCalls, breakerName \in BreakerNames, fallback \in BOOLEAN :
          BEnter(i, breakerName, fallback)
    \/ \E i \in 1..MaxBreakerCalls : BResolve(i)
    \/ \E i \in 1..MaxBreakerCalls : BReject(i)
    \/ \E circuitBreakerName \in {Str("api", 3)} : BHandleServerError(circuitBreakerName)
    \/ BTick

SpecBreaker == BreakerInit /\ [][BreakerNext]_vars

(***************************************************************************)
(* Claims on the circuit breaker                                           *)
(***************************************************************************)
\* the last step acted on the breaker "api"
Stepped == ret.op \in {"enter", "resolve", "reject", "handleServerError"}

\* C22: from CLOSED with failure count 0, the breaker is CLOSED as long as
\* fewer than failureThreshold calls have failed in a row, and the call that
\* fails as the failureThreshold-th in a row leaves it OPEN with lastFailure
\* the time of that failure.
C22_TripsAtThreshold ==
    history.inARow =>
        /\ history.failed < Api.failureThreshold => Api.state = "CLOSED"
        /\ (ret.op = "reject" /\ history.failed = Api.failureThreshold) =>
              /\ Api.state = "OPEN"
              /\ Api.lastFailure = Num(now)

\* C22 witness: the failureThreshold-th failure in a row has just opened the
\* breaker
C22_Tripped ==
    /\ history.inARow
    /\ ret.op = "reject"
    /\ history.failed = Api.failureThreshold
    /\ ret.before.state = "CLOSED"
    /\ Api.state = "OPEN"

\* C23 as stated: the failure count is that of the failed calls since the
\* last successful call: a call that succeeds while the breaker is CLOSED
\* leaves the count at 0.
C23_SuccessResets ==
    (ret.op = "resolve" /\ ret.before.state = "CLOSED") => Api.failures = 0

\* the last step was a call entering while the breaker was OPEN and
\* now - lastFailure < recoveryTimeout
EnteredOpen ==
    /\ ret.op = "enter"
    /\ call[ret.i].breakerName = "api"
    /\ ret.before.state = "OPEN"
    /\ now - ToNumber(ret.before.lastFailure) < ret.before.recoveryTimeout

\* C24: a call made while the breaker is OPEN and now - lastFailure <
\* recoveryTimeout does not invoke the operation; with a fallback, it invokes
\* the fallback once and returns its value; it leaves the breaker's state,
\* failure count and lastFailure as they were.
C24_ShortCircuit ==
    EnteredOpen =>
        /\ call[ret.i].operations = 0
        /\ call[ret.i].pc = "done"
        /\ call[ret.i].fallback =>
              /\ call[ret.i].fallbacks = 1
              /\ call[ret.i].outcome = [returned |-> FallbackResult]
        /\ Api.state = ret.before.state
        /\ Api.failures = ret.before.failures
        /\ Api.lastFailure = ret.before.lastFailure

\* C24 witness: a call with a fallback was short-circuited one millisecond
\* before the recovery timeout
C24_FellBack ==
    /\ EnteredOpen
    /\ now - ToNumber(ret.before.lastFailure) = ret.before.recoveryTimeout - 1
    /\ call[ret.i].fallback
    /\ call[ret.i].outcome = [returned |-> FallbackResult]

\* C25 as stated: a call short-circuited by the OPEN breaker, no fallback
\* supplied, raises to its caller.
C25_FailsFast ==
    \A i \in DOMAIN call :
        (call[i].pc = "done" /\ call[i].shortCircuit /\ ~call[i].fallback) =>
            "threw" \in DOMAIN call[i].outcome

\* the calls let through as trials whose operation is in flight
Trials == {i \in DOMAIN call : call[i].pc = "operation" /\ call[i].entered = "HALF_OPEN"}

\* C26 as stated: once the recovery window has elapsed, at most one operation
\* let through by the HALF_OPEN breaker is in flight, in every interleaving.
C26_OneTrial == Cardinality(Trials) <= 1

C28_OpenAtThreshold ==
    Api.state = "OPEN" => Api.failures >= Api.failureThreshold

\* C28 witness: handleServerError has just opened the breaker
C28_OpenedByServerError ==
    /\ ret.op = "handleServerError"
    /\ ret.before.state = "CLOSED"
    /\ Api.state = "OPEN"

OnApi == {i \in DOMAIN call : call[i].pc # "new" /\ call[i].breakerName = "api"}
ShortCircuited == {i \in OnApi : call[i].shortCircuit}
Pending == {i \in OnApi : call[i].pc = "operation"}

\* C29: totalRequests counts the calls made on the breaker, short-circuited
\* ones included, successfulRequests the operations that resolved and
\* failedRequests those that rejected; totalRequests - (successfulRequests +
\* failedRequests) is the number of calls short-circuited or in flight.
C29_Stats ==
    /\ Api.stats.totalRequests = Cardinality(OnApi)
    /\ Api.stats.successfulRequests
         = Cardinality({i \in OnApi : call[i].settled = "resolved"})
    /\ Api.stats.failedRequests
         = Cardinality({i \in OnApi : call[i].settled = "rejected"})
    /\ Api.stats.totalRequests >= Api.stats.successfulRequests + Api.stats.failedRequests
    /\ Api.stats.totalRequests - (Api.stats.successfulRequests + Api.stats.failedRequests)
         = Cardinality(ShortCircuited) + Cardinality(Pending)

\* C29 witness: one call was short-circuited, one is in flight, one has
\* settled
C29_AllKinds ==
    /\ ShortCircuited # {}
    /\ Pending # {}
    /\ Api.stats.successfulRequests + Api.stats.failedRequests > 0

\* C30 as stated: a step that takes the breaker into OPEN, whichever
\* operation it belongs to, logs CIRCUIT_BREAKER_OPEN with the breaker name,
\* the failure count and the threshold.
C30_OpenLogged ==
    (Stepped /\ ret.before.state # "OPEN" /\ Api.state = "OPEN") =>
        \E n \in DOMAIN ret.logged : ret.logged[n] = CIRCUIT_BREAKER_OPEN("api", Api)

\* C31: the breaker leaves OPEN only in a step of an executeWithCircuitBreaker
\* call made when now - lastFailure >= recoveryTimeout, and then for
\* HALF_OPEN; time passing, the health monitor firing in it, leaves every
\* breaker as it was.
C31_LazyHalfOpen ==
    /\ ret.op = "tick" => Api = ret.before
    /\ (Stepped /\ ret.before.state = "OPEN" /\ Api.state # "OPEN") =>
          /\ ret.op = "enter"
          /\ call[ret.i].breakerName = "api"
          /\ now - ToNumber(ret.before.lastFailure) >= ret.before.recoveryTimeout
          /\ Api.state = "HALF_OPEN"

\* C31 witness: the recovery timeout has passed with no call made, and the
\* breaker is OPEN
C31_StillOpen ==
    /\ ret.op = "tick"
    /\ Api.state = "OPEN"
    /\ Api.lastFailure # Null
    /\ now - ToNumber(Api.lastFailure) >= Api.recoveryTimeout

(***************************************************************************)
(* SpecRetry: one invocation of retryWithBackoff(operation, options), the  *)
(* options drawn from RetryOptions, each operation(attempt) resolving or   *)
(* rejecting.  `call` is the invocation: the attempts passed to operation, *)
(* the errors they threw and the delays slept; `ret` is its last step.     *)
(***************************************************************************)
MaxAttempts == 5

Undefined == [type |-> "undefined"]

RetryDelays ==
    {[baseDelay |-> 1000, maxDelay |-> 10000, backoffFactor |-> 2],
     [baseDelay |-> 100, maxDelay |-> 300, backoffFactor |-> 2],
     [baseDelay |-> 400, maxDelay |-> 300, backoffFactor |-> 3],
     [baseDelay |-> 50, maxDelay |-> 300, backoffFactor |-> 1],
     [baseDelay |-> 100, maxDelay |-> 300, backoffFactor |-> 0]}

RetryConditions == {"default", "retryable", "firstTwo"}

RetryOptions ==
    {[maxAttempts |-> m, baseDelay |-> d.baseDelay, maxDelay |-> d.maxDelay,
      backoffFactor |-> d.backoffFactor, retryCondition |-> c] :
        m \in 0..MaxAttempts, d \in RetryDelays, c \in RetryConditions}

\* what operation(attempt) resolves with, and what it throws
ResultOf(attempt) == [result |-> attempt]
ErrorOf(attempt, retryable) ==
    [message |-> "operation failed", attempt |-> attempt, retryable |-> retryable]

RetryInit ==
    /\ now = Epoch
    /\ call \in {[pc |-> "new", options |-> o, attempt |-> 0, lastError |-> Undefined,
                  invocations |-> << >>, errors |-> << >>, sleeps |-> << >>,
                  outcome |-> Null] : o \in RetryOptions}
    /\ ret = NoRet
    /\ history = << >>
    /\ circuitBreakers = errorRecovery
    /\ responseCache = EnhancedCache(0, 0)
    /\ written = << >>
    /\ rateLimiter = RateLimiter
    /\ connectionPool = ConnectionPool(0)
    /\ admissions = << >>

RetryFrame ==
    UNCHANGED <<responseCache, written, rateLimiter, connectionPool, admissions,
                circuitBreakers, history>>

\* the head of the for loop with `attempt`: operation(attempt) is called, or
\* the loop is over and lastError is thrown
RetryLoop(c, attempt) ==
    IF retryWithBackoff_for(c.options, attempt)
    THEN [c EXCEPT !.pc = "operation", !.attempt = attempt,
                   !.invocations = Append(@, attempt)]
    ELSE [c EXCEPT !.pc = "done", !.attempt = attempt,
                   !.outcome = [threw |-> c.lastError]]

\* retryWithBackoff(operation, options) up to its first await
RStart ==
    /\ call.pc = "new"
    /\ call' = RetryLoop(call, 1)
    /\ ret' = [op |-> "start", before |-> call]
    /\ UNCHANGED now
    /\ RetryFrame

\* operation(attempt) resolves
RResolve ==
    /\ call.pc = "operation"
    /\ call' = [call EXCEPT !.pc = "done",
                            !.outcome = [returned |-> ResultOf(call.attempt)]]
    /\ ret' = [op |-> "resolve", before |-> call]
    /\ UNCHANGED now
    /\ RetryFrame

\* operation(attempt) rejects
RReject(retryable) ==
    LET error == ErrorOf(call.attempt, retryable)
        c == retryWithBackoff_catch(call.options, call.attempt, error)
        failed == [call EXCEPT !.lastError = c.lastError, !.errors = Append(@, error)]
    IN  /\ call.pc = "operation"
        /\ call' = IF c.break
                   THEN [failed EXCEPT !.pc = "done", !.outcome = [threw |-> c.lastError]]
                   ELSE [failed EXCEPT !.pc = "sleeping", !.sleeps = Append(@, c.delay)]
        /\ ret' = [op |-> "reject", before |-> call]
        /\ UNCHANGED now
        /\ RetryFrame

\* the timer of the sleep fires: attempt++ and the loop goes on
RWake ==
    /\ call.pc = "sleeping"
    /\ now' = now + call.sleeps[Len(call.sleeps)]
    /\ call' = RetryLoop(call, call.attempt + 1)
    /\ ret' = [op |-> "wake", before |-> call]
    /\ RetryFrame

RetryNext ==
    \/ RStart
    \/ RResolve
    \/ \E retryable \in BOOLEAN : RReject(retryable)
    \/ RWake

SpecRetry == RetryInit /\ [][RetryNext]_vars

\* every operation(attempt) settles and every timer fires
SpecRetryFair == SpecRetry /\ WF_vars(RetryNext)

(***************************************************************************)
(* Claims on retryWithBackoff                                              *)
(***************************************************************************)
\* C32: with maxAttempts >= 1, operation is invoked with 1, 2, ... in order,
\* at most maxAttempts times, with at most maxAttempts - 1 sleeps; a result
\* returned is that of the first attempt that succeeded, the last one
\* invoked; and the invocation comes to its end.
C32_InOrder ==
    call.options.maxAttempts >= 1 =>
        /\ call.invocations = [k \in 1..Len(call.invocations) |-> k]
        /\ Len(call.invocations) <= call.options.maxAttempts
        /\ Len(call.sleeps) <= call.options.maxAttempts - 1
        /\ Len(call.sleeps) <= Len(call.errors)
        /\ Len(call.errors) >= Len(call.invocations) - 1
        /\ (call.pc = "done" /\ "returned" \in DOMAIN call.outcome) =>
              /\ Len(call.errors) = Len(call.invocations) - 1
              /\ call.outcome.returned = ResultOf(Len(call.invocations))

C32_Terminates == []C32_InOrder /\ <>(call.pc = "done")

\* C32 witness: the last attempt allowed succeeded, after maxAttempts - 1
\* failures and sleeps
C32_LastAttemptSucceeded ==
    /\ call.pc = "done"
    /\ call.options.maxAttempts >= 3
    /\ "returned" \in DOMAIN call.outcome
    /\ Len(call.invocations) = call.options.maxAttempts
    /\ Len(call.sleeps) = call.options.maxAttempts - 1

\* the last step was attempt k failing with k = maxAttempts or
\* retryCondition(error, k) false
FinalFailure ==
    /\ ret.op = "reject"
    /\ \/ ret.before.attempt = call.options.maxAttempts
       \/ ~retryCondition(call.options.retryCondition,
                          call.errors[Len(call.errors)], ret.before.attempt)

\* C33: when attempt k fails and k = maxAttempts or retryCondition(error, k)
\* is false, retryWithBackoff ends there, with no sleep and no further
\* invocation, throwing the error of attempt k; nothing is done after the end.
C33_PropagatesLastError ==
    /\ FinalFailure =>
          /\ call.pc = "done"
          /\ call.sleeps = ret.before.sleeps
          /\ call.invocations = ret.before.invocations
          /\ call.outcome = [threw |-> call.errors[Len(call.errors)]]
          /\ call.outcome.threw.attempt = ret.before.attempt
    /\ ret.op # "none" => ret.before.pc # "done"

\* C33 witness: retryCondition has stopped the retries at a failure that was
\* neither the first one nor that of the last attempt allowed
C33_StoppedByCondition ==
    /\ FinalFailure
    /\ ret.before.attempt >= 2
    /\ ret.before.attempt < call.options.maxAttempts
    /\ call.outcome = [threw |-> ErrorOf(ret.before.attempt, FALSE)]

\* C34: the k-th delay slept is min(baseDelay * backoffFactor^(k-1), maxDelay):
\* at most maxDelay, non-decreasing in k when backoffFactor >= 1, and 100, 200,
\* 300, 300 for baseDelay 100, backoffFactor 2, maxDelay 300 and five attempts
\* that all fail.
C34_Delays ==
    /\ \A k \in 1..Len(call.sleeps) :
          /\ call.sleeps[k] <= call.options.maxDelay
          /\ \/ call.sleeps[k] = call.options.maxDelay
             \/ call.sleeps[k] = call.options.baseDelay * Math_pow(call.options.backoffFactor, k - 1)
          /\ call.sleeps[k] <= call.options.baseDelay * Math_pow(call.options.backoffFactor, k - 1)
          /\ (call.options.backoffFactor >= 1 /\ k > 1) => call.sleeps[k - 1] <= call.sleeps[k]
    /\ (/\ call.options.baseDelay = 100
        /\ call.options.backoffFactor = 2
        /\ call.options.maxDelay = 300
        /\ call.options.maxAttempts = 5
        /\ call.pc = "done"
        /\ Len(call.errors) = 5) => call.sleeps = <<100, 200, 300, 300>>

\* C34 witness: the five attempts of the example have failed
C34_Example ==
    /\ call.options.baseDelay = 100
    /\ call.options.backoffFactor = 2
    /\ call.options.maxDelay = 300
    /\ call.options.maxAttempts = 5
    /\ call.pc = "done"
    /\ Len(call.errors) = 5
    /\ Len(call.sleeps) = 4

(***************************************************************************)
(* Further claims on the ConnectionPool                                    *)
(***************************************************************************)
\* C35: when every holder of a slot calls release(), every caller of acquire()
\* is granted a slot: at once when a slot is free, and a queued caller after
\* the releases that bring it to the head of the queue.
C35_EveryAcquirerGranted ==
    \A c \in Clients : (call[c].pc = "queued") ~> (call[c].pc = "holding")

\* C35 witness: a release() by a holder has granted the slot to the caller
\* that was waiting in the queue
C35_QueuedGranted ==
    /\ Paired
    /\ ret.op = "release"
    /\ call[ret.by].pc = "idle"
    /\ Len(ret.before.queue) = 1
    /\ call[ret.before.queue[1]].pc = "holding"
    /\ connectionPool.queue = << >>

\* C36: with every release() called by the holder of a slot, callers wait in
\* the queue only while activeConnections = maxConnections.
C36_QueueOnlyWhenFull ==
    (Paired /\ Len(connectionPool.queue) > 0) =>
        connectionPool.activeConnections = connectionPool.maxConnections

\* C36 witness: an acquire() has just joined the queue of a full pool
C36_Queued ==
    /\ Paired
    /\ ret.op = "acquire"
    /\ call[ret.by].pc = "queued"
    /\ Len(connectionPool.queue) > Len(ret.before.queue)

(***************************************************************************)
(* Further claims on the circuit breaker                                   *)
(***************************************************************************)
\* the last step was an operation failing with the breaker CLOSED or HALF_OPEN
FailedInService ==
    /\ ret.op = "reject"
    /\ ret.before.state \in {"CLOSED", "HALF_OPEN"}

\* C37: an operation that fails while the breaker is CLOSED or HALF_OPEN is
\* counted (failures, lastFailure, failedRequests, OPEN at the threshold)
\* whether or not a fallback was supplied; with a fallback the call returns
\* the fallback's value, without one it throws the operation's error.
C37_FallbackOnFailure ==
    FailedInService =>
        /\ Api.failures = ret.before.failures + 1
        /\ Api.lastFailure = Num(now)
        /\ Api.stats.failedRequests = ret.before.stats.failedRequests + 1
        /\ Api.state = IF Api.failures >= Api.failureThreshold THEN "OPEN"
                       ELSE ret.before.state
        /\ call[ret.i].pc = "done"
        /\ call[ret.i].operations = 1
        /\ IF call[ret.i].fallback
           THEN /\ call[ret.i].fallbacks = 1
                /\ call[ret.i].outcome = [returned |-> FallbackResult]
           ELSE /\ call[ret.i].fallbacks = 0
                /\ call[ret.i].outcome = [threw |-> OperationError]

\* C37 witness: the failure that opened the breaker was answered by the
\* fallback
C37_TrippedWithFallback ==
    /\ FailedInService
    /\ ret.before.state = "CLOSED"
    /\ Api.state = "OPEN"
    /\ call[ret.i].fallback
    /\ call[ret.i].outcome = [returned |-> FallbackResult]

(***************************************************************************)
(* Further claims on generateResponse                                      *)
(***************************************************************************)
\* invocation i takes a step of its own: its start, or the completion of its
\* post
OwnStep(i) ==
    /\ call[i].pc \in {"new", "posting"}
    /\ call'[i].pc # call[i].pc

\* C38: an invocation with useCache = false leaves the response cache
\* (entries, hit counts, access times) as it was in each of its steps, and
\* when the rate limit admits it, it calls acquire() and the upstream even
\* though the cache holds a response for its key.
C38_UncachedFrame ==
    /\ [][\A i \in DOMAIN call :
             (OwnStep(i) /\ ~call'[i].useCache) => responseCache' = responseCache]_vars
    /\ [](\A i \in DOMAIN call :
             (call[i].pc # "new" /\ ~call[i].useCache /\ call[i].admitted) =>
                 /\ call[i].acquires = 1
                 /\ Done(i) => (Replied(i) /\ call[i].posts = 1))

\* C38 witness: an invocation with useCache = false got its text from the
\* upstream while a response an earlier invocation had stored for the same
\* key was in the cache, unexpired
C38_BypassedCache ==
    \E i, j \in DOMAIN call :
        /\ Returned(j) /\ call[j].useCache /\ Replied(j)
        /\ Returned(i) /\ ~call[i].useCache /\ Replied(i)
        /\ call[i].prompt = call[j].prompt
        /\ call[i].startedAt >= call[j].endedAt
        /\ call[i].endedAt - call[j].endedAt < CACHE_TTL
        /\ MapHas(responseCache.cache,
                  createCacheKey(call[i].prompt, call[i].systemMessage))

(***************************************************************************)
(* Further claims on the EnhancedCache                                     *)
(***************************************************************************)
\* C39: after any sequence of set, get, has, delete, clear, evictLRU and
\* cleanup, the entry map and the access-time map have the same keys, each
\* once.
C39_SameKeys ==
    /\ MapKeys(responseCache.cache) = MapKeys(responseCache.accessTimes)
    /\ Len(responseCache.cache) = Cardinality(MapKeys(responseCache.cache))
    /\ Len(responseCache.accessTimes) = Cardinality(MapKeys(responseCache.accessTimes))

\* C39 witness: evictLRU() has removed one of two entries, with its access
\* time
C39_EvictedOne ==
    /\ ret.op = "evictLRU"
    /\ Len(ret.before.cache) = 2
    /\ Len(responseCache.cache) = 1
    /\ Len(responseCache.accessTimes) = 1

====
